---- MODULE Spec2Model ----
(***************************************************************************)
(* Model of the bookstore backend's cart and order engines                 *)
(* (app/services/cart_service.py, app/services/order_service.py and the    *)
(* routes of app/api/v1/order.py).                                         *)
(*                                                                         *)
(* Every action is one HTTP request handled to completion: the committed   *)
(* database state is in the variables, the SQLAlchemy session of a request *)
(* is local to its action and is discarded when the request ends without a *)
(* commit.                                                                 *)
(*                                                                         *)
(* Money is a Float column in the source.  It is modelled as an integer    *)
(* number of thousandths of the currency unit, so that round(x, 2) is a    *)
(* real rounding (to a multiple of 10) and not the identity.               *)
(***************************************************************************)
EXTENDS Integers, Sequences, FiniteSets, TLC

\* ---------------------------------------------------------------- bounds
MaxStock == 2
MaxOrders == 1
MaxLogs == 2
\* orders the requests running side by side may create
MaxRaceOrders == 2

\* the rows the category table may hold
MaxCategories == 2

\* the reset tokens handed out
MaxTokens == 2

\* the hours the clock runs
MaxHours == 2

Users == {"u1"}
BookIds == {"b1", "b2"}
\* a book id no Book row has (Book.query.get returns None)
MissingBook == "b0"
\* prices a catalog admin may set: 1.000 and 1.004 (BookSchema: any float >= 0)
Prices == {1000, 1004}
\* quantities a request may carry
Quantities == -1 .. (MaxStock + 1)
\* the (book, quantity) pairs of the add and update requests
AddRequests == (BookIds \X (0 .. (MaxStock + 1))) \cup {<<MissingBook, 1>>}
UpdateRequests == (BookIds \X Quantities) \cup {<<MissingBook, 1>>}
\* the payloads of the catalog admin's update requests: a new price, or a new
\* stock_quantity
PricePayloads == [{"price"} -> Prices]
StockPayloads == [{"stock_quantity"} -> 0..MaxStock]
\* payment_transaction_id values; NoTransaction stands for None
NoTransaction == "null"
TransactionIds == {NoTransaction, "t1"}
\* payment methods a create-order request may carry
RequestPaymentMethods == {"stripe", "order_on_delivery"}
AdminId == "admin"
\* two customers, where it matters whose cart a request names
Customers == {"u1", "u2"}
\* the workers of the server that handle requests side by side
Workers == {"w1", "w2"}
\* a worker between two requests
Idle == [op |-> "idle"]
\* the (order id, transaction id) pairs of the payment requests, the order ids
\* of the cancel requests and the (order id, status name) pairs of the admin's
\* requests (names in upper case, and one as a client may spell it);
\* MaxOrders + 1 is the id of no order
PaymentRequests == ((1..MaxOrders) \X TransactionIds) \cup {<<MaxOrders + 1, NoTransaction>>}
CancelRequests == 1..(MaxOrders + 1)
StatusRequests ==
    ((1..MaxOrders) \X {"PENDING", "PROCESSING", "PAID", "SHIPPED", "COMPLETED", "CANCELLED"})
    \cup {<<1, "BOGUS">>, <<MaxOrders + 1, "PAID">>, <<1, "paid">>}

\* None
NoValue == "None"

\* a key the payload does not carry
Absent == "<absent>"

\* the accounts of the user table, and the password they start with
Registered == {"ann@example.com", "bob@example.com"}

InitialPassword == "Secret#2024"

\* werkzeug's generate_password_hash: a value check_password_hash matches
\* against the one password it was made from
PasswordHash(password) == <<"pbkdf2", password>>

\* ---------------------------------------------------------------- enums
PENDING == "pending"
PROCESSING == "processing"
PAID == "paid"
SHIPPED == "shipped"
COMPLETED == "completed"
CANCELLED == "cancelled"
OrderStatus == {PENDING, PROCESSING, PAID, SHIPPED, COMPLETED, CANCELLED}

ORDER_ON_DELIVERY == "order_on_delivery"
PaymentMethod == {"mtn_mobile_money", "airtel_money", "stripe", ORDER_ON_DELIVERY}

\* the columns of the Book model that the cart and order engines touch
BookColumns == {"price", "stock_quantity"}

\* books:      Book rows, book id -> [price, stock_quantity]
\* carts:      Cart rows, a sequence; the cart id is the index
\* cart_items: CartItem rows, a set of records
\* orders:     Order rows with their OrderItems, a sequence; the id is the index
\* logs:       OrderStatusChangeLog rows, in insertion order
\* response:   what the last request returned to its caller
\* sessions:   per server worker, the request it is in the middle of, with what
\*             the request's SQLAlchemy session has loaded so far
\* outbox:     the messages the mail extension has accepted for delivery
\* categories: the rows of book_categories, in order of insertion; a row's id
\*             is its position
\* users:      the rows of users by email: password hash and reset token
\* utcnow:     the clock, in hours
\* issued:     how many reset tokens secrets.token_urlsafe has handed out
VARIABLES books, carts, cart_items, orders, logs, response, sessions, outbox,
          categories, users, utcnow, issued

shop_vars == <<books, carts, cart_items, orders, logs, sessions>>

account_vars == <<users, utcnow, issued>>

vars == <<shop_vars, response, outbox, categories, account_vars>>

\* ---------------------------------------------------------------- helpers
\* Python's round(x, 2) on an amount in thousandths: nearest multiple of 10,
\* ties to the even hundredth
Round2(x) ==
    LET r == x % 10
        base == x - r
    IN  IF r < 5 THEN base
        ELSE IF r > 5 THEN base + 10
        ELSE IF (base \div 10) % 2 = 0 THEN base ELSE base + 10

RECURSIVE SumSubtotal(_)
SumSubtotal(items) ==
    IF items = {} THEN 0
    ELSE LET i == CHOOSE x \in items : TRUE
         IN  i.subtotal + SumSubtotal(items \ {i})

\* Cart.query.filter_by(user_id=..., status='active')
ActiveCarts(user_id) ==
    {c \in 1..Len(carts) : carts[c].user_id = user_id /\ carts[c].status = "active"}

\* .first() of that query; 0 stands for None
FirstActiveCart(user_id) ==
    IF ActiveCarts(user_id) = {} THEN 0
    ELSE CHOOSE c \in ActiveCarts(user_id) : \A d \in ActiveCarts(user_id) : c <= d

\* CartItem.query.filter_by(cart_id=...).all() over a set of CartItem rows
ItemsOfCart(items, cart_id) == {i \in items : i.cart_id = cart_id}

\* CartItem.query.filter_by(cart_id=..., book_id=...)
ItemsOfCartBook(items, cart_id, book_id) ==
    {i \in items : i.cart_id = cart_id /\ i.book_id = book_id}

\* primary key of a new CartItem row (uuid4 in the source: any unused id)
NewItemId(items) ==
    CHOOSE n \in 1..(Cardinality(items) + 1) : \A i \in items : i.id # n

\* CartItem.__init__: the subtotal passed by the caller is overwritten by
\* calculate_subtotal = quantity * price_at_addition
CartItemInit(id, cart_id, book_id, quantity, price_at_addition, subtotal) ==
    [id |-> id, cart_id |-> cart_id, book_id |-> book_id, quantity |-> quantity,
     price_at_addition |-> price_at_addition,
     subtotal |-> quantity * price_at_addition]

\* the totals left as they were: the recomputation forgotten
CartTotals_Stale(cart, items) == cart

\* "cart.total_items = len(items); cart.total_price = round(sum(subtotals), 2)"
CartTotals(cart, items) ==
    [cart EXCEPT !.total_items = Cardinality(items),
                 !.total_price = Round2(SumSubtotal(items))]

\* the branch of update_cart_item and remove_cart_item that resets the totals
\* when no item remains
CartTotalsOrReset(cart, items) ==
    IF items = {} THEN [cart EXCEPT !.total_items = 0, !.total_price = 0]
    ELSE CartTotals(cart, items)

\* ---------------------------------------------------------------- initial state
Init ==
    /\ books \in [BookIds -> [price : Prices, stock_quantity : 0..MaxStock]]
    /\ carts = <<>>
    /\ cart_items = {}
    /\ orders = <<>>
    /\ logs = <<>>
    /\ response = [op |-> "none"]
    /\ sessions = [w \in Workers |-> Idle]
    /\ outbox = {}
    /\ categories = <<>>
    /\ users = [e \in Registered |->
                  [password_hash |-> PasswordHash(InitialPassword),
                   reset_token |-> NoValue,
                   reset_token_expires |-> NoValue]]
    /\ utcnow = 0
    /\ issued = 0

\* ---------------------------------------------------------------- cart engine
\* the stock check of add_to_cart, off by one
AddStockInsufficient_OffByOne(book, total_cart_quantity) ==
    book.stock_quantity < total_cart_quantity - 1

\* the stock check of add_to_cart
AddStockInsufficient(book, total_cart_quantity) ==
    book.stock_quantity < total_cart_quantity

AddToCart(user_id, book_id, quantity) ==
    LET req == [op |-> "add_to_cart", user |-> user_id, book |-> book_id,
                quantity |-> quantity]
        Reply(code, error) == req @@ [code |-> code, error |-> error]
        found == FirstActiveCart(user_id)
        \* a new Cart gets its id when the session flushes it
        cart_id == IF found = 0 THEN Len(carts) + 1 ELSE found
        cart == IF found = 0
                THEN [user_id |-> user_id, status |-> "active",
                      total_items |-> 0, total_price |-> 0]
                ELSE carts[found]
        existing == ItemsOfCartBook(cart_items, found, book_id)
        existing_cart_item == CHOOSE i \in existing : TRUE
        total_cart_quantity ==
            IF existing = {} THEN quantity
            ELSE quantity + existing_cart_item.quantity
        new_items ==
            IF existing # {}
            THEN (cart_items \ {existing_cart_item}) \cup
                 {[existing_cart_item EXCEPT
                     !.quantity = @ + quantity,
                     !.subtotal = Round2((existing_cart_item.quantity + quantity)
                                         * books[book_id].price)]}
            ELSE cart_items \cup
                 {CartItemInit(NewItemId(cart_items), cart_id, book_id, quantity,
                               books[book_id].price,
                               Round2(quantity * books[book_id].price))}
        new_cart == CartTotals(cart, ItemsOfCart(new_items, cart_id))
    IN  /\ UNCHANGED <<books, orders, logs, sessions, outbox,
                       categories, account_vars>>
        /\ IF quantity <= 0
           THEN /\ response' = Reply(400, "Quantity must be greater than 0")
                /\ UNCHANGED <<carts, cart_items>>
           ELSE IF book_id \notin DOMAIN books
           THEN /\ response' = Reply(400, "Book not found")
                /\ UNCHANGED <<carts, cart_items>>
           ELSE IF AddStockInsufficient(books[book_id], total_cart_quantity)
           THEN \* returns without commit: the flushed Cart row is discarded
                /\ response' = Reply(400, "Insufficient stock")
                /\ UNCHANGED <<carts, cart_items>>
           ELSE /\ cart_items' = new_items
                /\ carts' = IF found = 0 THEN Append(carts, new_cart)
                            ELSE [carts EXCEPT ![found] = new_cart]
                /\ response' = Reply(201, "")

\* the stock check of update_cart_item counting what the line already holds
UpdateStockInsufficient_Incremental(book, cart_item, quantity) ==
    book.stock_quantity < quantity + cart_item.quantity

\* the stock check of update_cart_item: the new quantity alone
UpdateStockInsufficient(book, cart_item, quantity) ==
    book.stock_quantity < quantity

UpdateCartItem(user_id, book_id, quantity) ==
    LET req == [op |-> "update_cart_item", user |-> user_id, book |-> book_id,
                quantity |-> quantity]
        Reply(code, error) == req @@ [code |-> code, error |-> error]
        found == FirstActiveCart(user_id)
        matching == ItemsOfCartBook(cart_items, found, book_id)
        cart_item == CHOOSE i \in matching : TRUE
        new_items ==
            IF quantity = 0 THEN cart_items \ {cart_item}
            ELSE (cart_items \ {cart_item}) \cup
                 {[cart_item EXCEPT
                     !.quantity = quantity,
                     !.subtotal = Round2(quantity * books[book_id].price)]}
    IN  /\ UNCHANGED <<books, orders, logs, sessions, outbox,
                       categories, account_vars>>
        /\ IF quantity < 0
           THEN /\ response' = Reply(400, "Quantity cannot be negative")
                /\ UNCHANGED <<carts, cart_items>>
           ELSE IF book_id \notin DOMAIN books
           THEN /\ response' = Reply(400, "Book not found")
                /\ UNCHANGED <<carts, cart_items>>
           ELSE IF found = 0
           THEN /\ response' = Reply(400, "No active cart found")
                /\ UNCHANGED <<carts, cart_items>>
           ELSE IF matching = {}
           THEN /\ response' = Reply(400, "Book not in cart")
                /\ UNCHANGED <<carts, cart_items>>
           ELSE IF UpdateStockInsufficient(books[book_id], cart_item, quantity)
           THEN /\ response' = Reply(400, "Insufficient stock")
                /\ UNCHANGED <<carts, cart_items>>
           ELSE /\ cart_items' = new_items
                /\ carts' = [carts EXCEPT ![found] =
                               CartTotalsOrReset(carts[found],
                                                 ItemsOfCart(new_items, found))]
                /\ response' = Reply(200, "")

\* the test of remove_cart_item with "<" for "<="
RemovesCompletely_BelowOne(cart_item) == cart_item.quantity < 1

\* the test of remove_cart_item that decides between deleting the row and
\* decrementing it
RemovesCompletely(cart_item) == cart_item.quantity <= 1

RemoveCartItem(user_id, book_id) ==
    LET req == [op |-> "remove_cart_item", user |-> user_id, book |-> book_id]
        found == FirstActiveCart(user_id)
        matching == ItemsOfCartBook(cart_items, found, book_id)
        cart_item == CHOOSE i \in matching : TRUE
        new_items ==
            IF RemovesCompletely(cart_item) THEN cart_items \ {cart_item}
            ELSE (cart_items \ {cart_item}) \cup
                 {[cart_item EXCEPT
                     !.quantity = @ - 1,
                     !.subtotal = Round2((cart_item.quantity - 1)
                                         * cart_item.price_at_addition)]}
    IN  /\ UNCHANGED <<books, orders, logs, sessions, outbox,
                       categories, account_vars>>
        /\ IF found = 0
           THEN /\ response' = req @@ [code |-> 400, error |-> "No active cart found"]
                /\ UNCHANGED <<carts, cart_items>>
           ELSE IF matching = {}
           THEN /\ response' = req @@ [code |-> 400, error |-> "Book not found in cart"]
                /\ UNCHANGED <<carts, cart_items>>
           ELSE /\ cart_items' = new_items
                /\ carts' = [carts EXCEPT ![found] =
                               CartTotalsOrReset(carts[found],
                                                 ItemsOfCart(new_items, found))]
                /\ response' = req @@
                     [code |-> 200, error |-> "",
                      previous_quantity |-> cart_item.quantity,
                      removed_completely |-> RemovesCompletely(cart_item)]

ClearCart(user_id) ==
    LET req == [op |-> "clear_cart", user |-> user_id]
        found == FirstActiveCart(user_id)
    IN  /\ UNCHANGED <<books, orders, logs, sessions, outbox,
                       categories, account_vars>>
        /\ IF found = 0
           THEN /\ response' = req @@ [code |-> 400, error |-> "No active cart found"]
                /\ UNCHANGED <<carts, cart_items>>
           ELSE /\ cart_items' = cart_items \ ItemsOfCart(cart_items, found)
                /\ carts' = [carts EXCEPT ![found].total_items = 0,
                                          ![found].total_price = 0]
                /\ response' = req @@ [code |-> 200, error |-> ""]

\* ---------------------------------------------------------------- catalog
\* BookService.update_book with a payload that carries the fields of `payload`
\* (a subset of price and stock_quantity; BookUpdateSchema accepts any
\* price >= 0 and any stock_quantity >= 0)
UpdateBook(book_id, payload) ==
    /\ books' = [books EXCEPT ![book_id] =
                    [a \in BookColumns |->
                        IF a \in DOMAIN payload THEN payload[a] ELSE @[a]]]
    /\ response' = [op |-> "update_book", book |-> book_id, code |-> 200]
    /\ UNCHANGED <<carts, cart_items, orders, logs, sessions, outbox,
                   categories, account_vars>>

\* ---------------------------------------------------------------- order engine
\* getattr on a Book instance: the attribute exists only if the model maps it
BookHasAttr(name) == name \in BookColumns

\* create_order without its stock check
OrderStockInsufficient_Never(book, quantity) == FALSE

\* the stock check of create_order
OrderStockInsufficient(book, quantity) == book.stock_quantity < quantity

\* create_order taking one copy per line whatever the quantity
DecrementStock_ByOne(book, quantity) ==
    [book EXCEPT !.stock_quantity = @ - 1]

\* "book.stock_quantity -= item['quantity']" of create_order
DecrementStock(book, quantity) ==
    [book EXCEPT !.stock_quantity = @ - quantity]

\* an OrderItem priced at one copy whatever the quantity
OrderItemPrice_Unit(book, quantity) == book.price

\* "price=book.price * item['quantity']" of create_order
OrderItemPrice(book, quantity) == book.price * quantity

\* the rows of cart.cart_items as the list the route iterates
RECURSIVE ItemList(_)
ItemList(items) ==
    IF items = {} THEN <<>>
    ELSE LET i == CHOOSE x \in items : \A y \in items : x.id <= y.id
         IN  <<[book_id |-> i.book_id, quantity |-> i.quantity]>>
             \o ItemList(items \ {i})

\* CartService.get_user_cart_items_by_cart_id
UserCartItemsByCartId(user_id, cart_id) ==
    IF /\ cart_id \in 1..Len(carts)
       /\ carts[cart_id].user_id = user_id
       /\ carts[cart_id].status = "active"
    THEN ItemList(ItemsOfCart(cart_items, cart_id))
    ELSE <<>>

\* the loop of OrderService.create_order over the lines, on the books as the
\* request's session sees them: each line that passes its check decrements the
\* session's copy before the next line is looked at
RECURSIVE CreateOrderLoop(_, _, _, _)
CreateOrderLoop(lines, session_books, order_items, total_amount) ==
    IF lines = <<>>
    THEN [ok |-> TRUE, error |-> "", books |-> session_books,
          order_items |-> order_items, total_amount |-> total_amount]
    ELSE LET item == Head(lines)
         IN  IF item.book_id \notin DOMAIN session_books
             THEN [ok |-> FALSE, error |-> "Book not found",
                   books |-> session_books,
                   order_items |-> order_items, total_amount |-> total_amount]
             ELSE IF OrderStockInsufficient(session_books[item.book_id],
                                            item.quantity)
             THEN [ok |-> FALSE, error |-> "Insufficient stock",
                   books |-> session_books,
                   order_items |-> order_items, total_amount |-> total_amount]
             ELSE LET price == OrderItemPrice(session_books[item.book_id],
                                              item.quantity)
                  IN  CreateOrderLoop(
                        Tail(lines),
                        [session_books EXCEPT ![item.book_id] =
                            DecrementStock(@, item.quantity)],
                        Append(order_items,
                               [book_id |-> item.book_id,
                                quantity |-> item.quantity,
                                price |-> price]),
                        total_amount + price)

\* the route going on with whatever list it got
NoCartItems_Never(lines) == FALSE

\* "if not cart_items" of the route: the list is empty
NoCartItems(lines) == lines = <<>>

\* NotificationService.send_order_invoice on the outbox: the message goes out
\* when the mail server takes it (mail_ok), and is lost otherwise
SendOrderInvoice(sent, order_id, mail_ok) ==
    IF mail_ok THEN sent \cup {[kind |-> "invoice", order |-> order_id]}
    ELSE sent

\* send_order_invoice letting the mail error out to its caller
InvoiceRaises_Propagated(mail_ok) == ~ mail_ok

\* whether send_order_invoice raises: its whole body is in a try whose except
\* clause logs the error and returns
InvoiceRaises(mail_ok) == FALSE

\* POST /orders/create: the route, OrderSchema.process_order_data,
\* get_user_cart_items_by_cart_id, OrderService.create_order and the invoice
\* mail that follows the commit
CreateOrderWith(user_id, cart_id, payment_method, mail_ok) ==
    LET req == [op |-> "create_order", user |-> user_id, cart |-> cart_id,
                payment_method |-> payment_method]
        Reply(code, error) == req @@ [code |-> code, error |-> error]
        lines == UserCartItemsByCartId(user_id, cart_id)
        r == CreateOrderLoop(lines, books, <<>>, 0)
        order == [user_id |-> user_id,
                  total_amount |-> r.total_amount,
                  payment_method |-> payment_method,
                  status |-> PENDING,
                  payment_transaction_id |-> NoTransaction,
                  order_items |-> r.order_items]
    IN  /\ UNCHANGED <<carts, cart_items, logs, sessions, categories, account_vars>>
        /\ IF ~ \E c \in 1..Len(carts) : c = cart_id /\ carts[c].user_id = user_id
           THEN \* ValidationError of the schema; the route's except clause
                \* names a class the module never imports, so the request
                \* ends in a server error
                /\ response' = Reply(500, "Invalid cart")
                /\ UNCHANGED <<books, orders, outbox>>
           ELSE IF NoCartItems(lines)
           THEN /\ response' = Reply(400, "Cart is empty or does not belong to the user")
                /\ UNCHANGED <<books, orders, outbox>>
           ELSE IF ~ r.ok
           THEN \* ValueError before any commit: what the loop changed lives
                \* in the session only and goes with it
                /\ response' = Reply(500, r.error)
                /\ UNCHANGED <<books, orders, outbox>>
           ELSE /\ Len(orders) < MaxOrders
                /\ books' = r.books
                /\ orders' = Append(orders, order)
                /\ outbox' = SendOrderInvoice(outbox, Len(orders) + 1, mail_ok)
                /\ response' =
                     IF InvoiceRaises(mail_ok)
                     THEN \* raised inside the try that follows the commit:
                          \* rollback (of nothing) and re-raise
                          Reply(500, "Failed to create order")
                     ELSE Reply(201, "") @@ [order |-> Len(orders) + 1]

\* a create-order request while the mail server is up
CreateOrder(user_id, cart_id, payment_method) ==
    CreateOrderWith(user_id, cart_id, payment_method, TRUE)

\* "book.<attr> -= quantity" for every item of the order
RECURSIVE SubtractAttr(_, _, _)
SubtractAttr(bks, order_items, attr) ==
    IF order_items = <<>> THEN bks
    ELSE LET item == Head(order_items)
         IN  SubtractAttr([bks EXCEPT ![item.book_id][attr] = @ - item.quantity],
                          Tail(order_items), attr)

\* "book.<attr> += quantity" for every item of the order
RECURSIVE AddAttr(_, _, _)
AddAttr(bks, order_items, attr) ==
    IF order_items = <<>> THEN bks
    ELSE LET item == Head(order_items)
         IN  AddAttr([bks EXCEPT ![item.book_id][attr] = @ + item.quantity],
                     Tail(order_items), attr)

\* process_payment also accepting orders in PROCESSING
PayableStatus_AlsoProcessing(status) == status \in {PENDING, PROCESSING}

\* the status test that opens process_payment
PayableStatus(status) == status = PENDING

\* a failure handler that commits what the session holds
Rollback_Commits(committed, pending) == pending

\* db.session.rollback(): what the session changed and did not commit is
\* dropped, the rows are as committed
Rollback(committed, pending) == committed

\* OrderService.process_payment behind its route
ProcessPayment(order_id, payment_transaction_id) ==
    LET req == [op |-> "process_payment", order |-> order_id,
                transaction |-> payment_transaction_id]
        Reply(code, error) == req @@ [code |-> code, error |-> error]
        order == orders[order_id]
        on_delivery == order.payment_method = ORDER_ON_DELIVERY
        \* the Book attributes the chosen branch reads and writes
        attrs == IF on_delivery THEN <<"reserved_stock">>
                 ELSE <<"stock", "reserved_stock">>
        raises == /\ order.order_items # <<>>
                  /\ \E k \in 1..Len(attrs) : ~ BookHasAttr(attrs[k])
        paid_books == IF on_delivery
                      THEN SubtractAttr(books, order.order_items, "reserved_stock")
                      ELSE SubtractAttr(SubtractAttr(books, order.order_items, "stock"),
                                        order.order_items, "reserved_stock")
        \* the status and the transaction id are assigned before the loop
        \* over the items
        paid_orders == [orders EXCEPT ![order_id] =
                          IF on_delivery
                          THEN [@ EXCEPT !.status = PROCESSING]
                          ELSE [@ EXCEPT !.status = PAID,
                                         !.payment_transaction_id =
                                            payment_transaction_id]]
    IN  /\ UNCHANGED <<carts, cart_items, logs, sessions,
                       categories, account_vars>>
        /\ IF order_id \notin 1..Len(orders)
           THEN /\ response' = Reply(400, "Order not found")
                /\ UNCHANGED <<books, orders, outbox>>
           ELSE IF ~ PayableStatus(order.status)
           THEN /\ response' = Reply(400, "Order cannot be paid")
                /\ UNCHANGED <<books, orders, outbox>>
           ELSE IF raises
           THEN \* AttributeError at the first item, inside the try: rollback,
                \* then ValueError
                /\ response' = Reply(400, "Payment processing failed")
                /\ orders' = Rollback(orders, paid_orders)
                /\ books' = Rollback(books, books)
                /\ UNCHANGED outbox
           ELSE /\ books' = paid_books
                /\ orders' = paid_orders
                \* a card payment that went through mails the invoice
                /\ outbox' = IF on_delivery THEN outbox
                             ELSE SendOrderInvoice(outbox, order_id, TRUE)
                /\ response' = Reply(200, "")

\* cancel_order also accepting PAID orders
CancellableStatus_AlsoPaid(status) == status \in {PENDING, PROCESSING, PAID}

\* the statuses cancel_order accepts
CancellableStatus(status) == status \in {PENDING, PROCESSING}

CancelOrder(order_id) ==
    LET req == [op |-> "cancel_order", order |-> order_id]
        Reply(code, error) == req @@ [code |-> code, error |-> error]
        order == orders[order_id]
        raises == order.order_items # <<>> /\ ~ BookHasAttr("stock")
    IN  /\ UNCHANGED <<carts, cart_items, logs, sessions, outbox,
                       categories, account_vars>>
        /\ IF order_id \notin 1..Len(orders)
           THEN /\ response' = Reply(400, "Order not found")
                /\ UNCHANGED <<books, orders>>
           ELSE IF ~ CancellableStatus(order.status)
           THEN /\ response' = Reply(400, "Order cannot be cancelled")
                /\ UNCHANGED <<books, orders>>
           ELSE IF raises
           THEN \* AttributeError outside any try: nothing is committed
                /\ response' = Reply(500, "AttributeError")
                /\ UNCHANGED <<books, orders>>
           ELSE /\ books' = AddAttr(books, order.order_items, "stock")
                /\ orders' = [orders EXCEPT ![order_id].status = CANCELLED]
                /\ response' = Reply(200, "")

\* str.upper() on the status names a request may carry
Upper(name) ==
    CASE name = "paid" -> "PAID"
      [] name = "pending" -> "PENDING"
      [] name = "bogus" -> "BOGUS"
      [] OTHER -> name

\* OrderStatus[new_status.upper()]: the members of the enum by name; a name
\* outside the domain is the KeyError
OrderStatusByName ==
    [n \in {"PENDING", "PROCESSING", "PAID", "SHIPPED", "COMPLETED", "CANCELLED"} |->
        CASE n = "PENDING" -> PENDING
          [] n = "PROCESSING" -> PROCESSING
          [] n = "PAID" -> PAID
          [] n = "SHIPPED" -> SHIPPED
          [] n = "COMPLETED" -> COMPLETED
          [] n = "CANCELLED" -> CANCELLED]

\* an audit entry that records the new status as the previous one too
StatusChangeLog_NoPrevious(order_id, admin_id, previous_status, new_status) ==
    [order_id |-> order_id, admin_id |-> admin_id,
     previous_status |-> new_status, new_status |-> new_status]

\* the OrderStatusChangeLog row admin_update_order_status builds
StatusChangeLog(order_id, admin_id, previous_status, new_status) ==
    [order_id |-> order_id, admin_id |-> admin_id,
     previous_status |-> previous_status, new_status |-> new_status]

\* the audit table keeping only its latest row
AddLog_KeepLatest(rows, audit_log) == <<audit_log>>

\* db.session.add(audit_log) and the commit: the table gets one more row
AddLog(rows, audit_log) == Append(rows, audit_log)

\* a status change that also wipes the order's total
WithStatus_ResetsTotal(order, new_status_enum) ==
    [order EXCEPT !.status = new_status_enum, !.total_amount = 0]

\* "order.status = new_status_enum" (updated_at, which is set next, is not
\* part of the model's Order rows)
WithStatus(order, new_status_enum) ==
    [order EXCEPT !.status = new_status_enum]

\* PUT /orders/<order_id>/status: the route upper-cases the name and the
\* service upper-cases it again before the enum lookup
AdminUpdateOrderStatus(order_id, new_status) ==
    LET req == [op |-> "admin_update_order_status", order |-> order_id,
                status |-> new_status]
        Reply(code, error) == req @@ [code |-> code, error |-> error]
        name == Upper(Upper(new_status))
    IN  /\ UNCHANGED <<books, carts, cart_items, sessions, outbox,
                       categories, account_vars>>
        /\ IF name \notin DOMAIN OrderStatusByName
           THEN /\ response' = Reply(400, "Invalid status")
                /\ UNCHANGED <<orders, logs>>
           ELSE IF order_id \notin 1..Len(orders)
           THEN /\ response' = Reply(400, "Order not found")
                /\ UNCHANGED <<orders, logs>>
           ELSE /\ Len(logs) < MaxLogs
                /\ orders' = [orders EXCEPT ![order_id] =
                                 WithStatus(@, OrderStatusByName[name])]
                /\ logs' = AddLog(logs,
                                  StatusChangeLog(order_id, AdminId,
                                                  orders[order_id].status,
                                                  OrderStatusByName[name]))
                /\ response' = Reply(200, "")

\* ---------------------------------------------------------------- requests side by side
\* Requests of different workers run in separate database transactions with
\* no row lock and no unique constraint between them.  A request is split at
\* the point where it has read what it decides on: what it read stays in its
\* session while other requests commit.

\* what Cart.query.filter_by(user_id=..., status='active').first() may return:
\* None (0) when there is no such row, any of the rows otherwise (the query has
\* no ORDER BY)
FoundCarts(user_id) ==
    IF ActiveCarts(user_id) = {} THEN {0} ELSE ActiveCarts(user_id)

\* what Query.first() may return of the rows a query matches
FirstOf(rows) == IF rows = {} THEN {{}} ELSE {{i} : i \in rows}

\* add_to_cart up to its first write: the book, the user's active cart and the
\* cart's line for the book are read (a request with a bad quantity or an
\* unknown book ends here)
AddToCartLookup(w, user_id, book_id, quantity) ==
    /\ sessions[w] = Idle
    /\ quantity > 0
    /\ book_id \in DOMAIN books
    /\ \E found \in FoundCarts(user_id) :
       \E existing \in FirstOf(ItemsOfCartBook(cart_items, found, book_id)) :
          sessions' = [sessions EXCEPT ![w] =
                          [op |-> "add_to_cart", user |-> user_id,
                           book_id |-> book_id, quantity |-> quantity,
                           book |-> books[book_id], cart |-> found,
                           existing |-> existing]]
    /\ UNCHANGED <<books, carts, cart_items, orders, logs, response, outbox,
                   categories, account_vars>>

\* the rest of add_to_cart: the Cart row is created if the query found none,
\* the quantity is checked against the book as the session loaded it, the line
\* the session found is updated by primary key or a new line inserted, the
\* totals recomputed over the cart's rows and all of it committed
AddToCartCommit(w) ==
    LET ses == sessions[w]
        req == [op |-> "add_to_cart", user |-> ses.user, book |-> ses.book_id,
                quantity |-> ses.quantity]
        Reply(code, error) == req @@ [code |-> code, error |-> error]
        cart_id == IF ses.cart = 0 THEN Len(carts) + 1 ELSE ses.cart
        cart == IF ses.cart = 0
                THEN [user_id |-> ses.user, status |-> "active",
                      total_items |-> 0, total_price |-> 0]
                ELSE carts[ses.cart]
        existing == ses.existing
        existing_cart_item == CHOOSE i \in existing : TRUE
        total_cart_quantity ==
            IF existing = {} THEN ses.quantity
            ELSE ses.quantity + existing_cart_item.quantity
        rows == {i \in cart_items : existing # {} /\ i.id = existing_cart_item.id}
        new_items ==
            IF existing # {}
            THEN (cart_items \ rows) \cup
                 {[i EXCEPT
                     !.quantity = existing_cart_item.quantity + ses.quantity,
                     !.subtotal = Round2((existing_cart_item.quantity + ses.quantity)
                                         * ses.book.price)] : i \in rows}
            ELSE cart_items \cup
                 {CartItemInit(NewItemId(cart_items), cart_id, ses.book_id,
                               ses.quantity, ses.book.price,
                               Round2(ses.quantity * ses.book.price))}
        new_cart == CartTotals(cart, ItemsOfCart(new_items, cart_id))
    IN  /\ ses.op = "add_to_cart"
        /\ sessions' = [sessions EXCEPT ![w] = Idle]
        /\ UNCHANGED <<books, orders, logs, outbox,
                       categories, account_vars>>
        /\ IF AddStockInsufficient(ses.book, total_cart_quantity)
           THEN /\ response' = Reply(400, "Insufficient stock")
                /\ UNCHANGED <<carts, cart_items>>
           ELSE IF existing # {} /\ rows = {}
           THEN \* the UPDATE matched no row: StaleDataError, rolled back
                /\ response' = Reply(400, "UPDATE statement on table 'cart_items'")
                /\ UNCHANGED <<carts, cart_items>>
           ELSE /\ cart_items' = new_items
                /\ carts' = IF ses.cart = 0 THEN Append(carts, new_cart)
                            ELSE [carts EXCEPT ![ses.cart] = new_cart]
                /\ response' = Reply(201, "")

\* POST /orders/create up to the call of OrderService.create_order: the schema
\* has validated the cart and get_user_cart_items_by_cart_id has loaded the
\* cart's lines, and with them (CartItem.book is lazy='joined') the Book rows,
\* which Query.get then serves from the session
CreateOrderLookup(w, user_id, cart_id, payment_method) ==
    LET req == [op |-> "create_order", user |-> user_id, cart |-> cart_id,
                payment_method |-> payment_method]
        Reply(code, error) == req @@ [code |-> code, error |-> error]
        lines == UserCartItemsByCartId(user_id, cart_id)
    IN  /\ sessions[w] = Idle
        /\ UNCHANGED <<books, carts, cart_items, orders, logs, outbox,
                       categories, account_vars>>
        /\ IF ~ \E c \in 1..Len(carts) : c = cart_id /\ carts[c].user_id = user_id
           THEN /\ response' = Reply(500, "Invalid cart")
                /\ UNCHANGED sessions
           ELSE IF NoCartItems(lines)
           THEN /\ response' = Reply(400, "Cart is empty or does not belong to the user")
                /\ UNCHANGED sessions
           ELSE /\ sessions' = [sessions EXCEPT ![w] =
                                   req @@ [lines |-> lines, books |-> books]]
                /\ UNCHANGED response

\* a commit that subtracts what the session took from whatever the database
\* holds by then ("SET stock_quantity = stock_quantity - n")
FlushStock_Relative(committed, loaded, session_books) ==
    [b \in DOMAIN committed |->
        [committed[b] EXCEPT !.stock_quantity =
            @ - (loaded[b].stock_quantity - session_books[b].stock_quantity)]]

\* the UPDATE statements of a commit: stock_quantity of the books the session
\* changed is set to the session's value, every other column and row is left
\* as the database has it
FlushStock(committed, loaded, session_books) ==
    [b \in DOMAIN committed |->
        IF session_books[b].stock_quantity # loaded[b].stock_quantity
        THEN [committed[b] EXCEPT !.stock_quantity = session_books[b].stock_quantity]
        ELSE committed[b]]

\* OrderService.create_order on the session's books, its commit and the
\* invoice mail (the mail server is up)
CreateOrderCommit(w) ==
    LET ses == sessions[w]
        req == [op |-> "create_order", user |-> ses.user, cart |-> ses.cart,
                payment_method |-> ses.payment_method]
        Reply(code, error) == req @@ [code |-> code, error |-> error]
        r == CreateOrderLoop(ses.lines, ses.books, <<>>, 0)
        order == [user_id |-> ses.user,
                  total_amount |-> r.total_amount,
                  payment_method |-> ses.payment_method,
                  status |-> PENDING,
                  payment_transaction_id |-> NoTransaction,
                  order_items |-> r.order_items]
    IN  /\ ses.op = "create_order"
        /\ sessions' = [sessions EXCEPT ![w] = Idle]
        /\ UNCHANGED <<carts, cart_items, logs, categories, account_vars>>
        /\ IF ~ r.ok
           THEN /\ response' = Reply(500, r.error)
                /\ UNCHANGED <<books, orders, outbox>>
           ELSE /\ Len(orders) < MaxRaceOrders
                /\ books' = FlushStock(books, ses.books, r.books)
                /\ orders' = Append(orders, order)
                /\ outbox' = SendOrderInvoice(outbox, Len(orders) + 1, TRUE)
                /\ response' = Reply(201, "") @@ [order |-> Len(orders) + 1]

\* ---------------------------------------------------------------- book categories
\* the names and descriptions a caller may send
RawNames == {"Fiction", " Fiction", "Poetry"}

RawDescriptions == {"novels"}

\* who sends a request: the holder of an admin token, the holder of a
\* customer's token, and a caller without an Authorization header
Requesters == {AdminId, "u1", "nobody"}

\* user.roles of the user a token verifies to
RolesOf == [r \in {AdminId, "u1"} |-> IF r = AdminId THEN {"Admin"} ELSE {"Customer"}]

\* str.lower() on role names
Lower(name) ==
    CASE name = "Admin" -> "admin"
      [] name = "Customer" -> "customer"
      [] OTHER -> name

\* str.strip() on the texts above
Strip(text) ==
    CASE text = " Fiction" -> "Fiction"
      [] OTHER -> text

\* "description.strip() if description else None"
StripOrNone(description) ==
    IF description \in {NoValue, ""} THEN NoValue ELSE Strip(description)

\* the ids of BookCategory.query.filter_by(name=name)
CategoryNamed(cats, name) == {i \in 1..Len(cats) : cats[i].name = name}

\* a table whose name column carries no constraint
UniqueViolation_Unchecked(cats) == FALSE

\* unique=True on book_categories.name: the flush of two rows with one name
\* is an IntegrityError
UniqueViolation(cats) ==
    \E i, j \in 1..Len(cats) : i # j /\ cats[i].name = cats[j].name

Raised(exception, cats) == [raised |-> exception, categories |-> cats]

\* BookCategoryService.create_book_category: the exception it re-raises after
\* the rollback, or none, and the table afterwards
CreateBookCategoryResult(cats, raw_name, raw_description) ==
    LET name == Strip(raw_name)
        description == StripOrNone(raw_description)
        added == Append(cats, [name |-> name, description |-> description])
    IN  IF CategoryNamed(cats, name) # {}
        THEN Raised("ValueError", cats)
        ELSE IF UniqueViolation(added)
        THEN Raised("IntegrityError", cats)
        ELSE Raised(NoValue, added)

\* BookCategoryService.update_book_category
UpdateBookCategoryResult(cats, category_id, update_data) ==
    IF category_id \notin 1..Len(cats)
    THEN Raised("ValueError", cats)
    ELSE LET named == update_data.name \notin {Absent, NoValue, ""}
             new_name == Strip(update_data.name)
             existing_name == {i \in CategoryNamed(cats, new_name) : i # category_id}
             renamed == IF named
                        THEN [cats EXCEPT ![category_id].name = new_name]
                        ELSE cats
             updated == IF update_data.description # Absent
                        THEN [renamed EXCEPT ![category_id].description =
                                 StripOrNone(update_data.description)]
                        ELSE renamed
         IN  IF named /\ existing_name # {}
             THEN \* "return existing_category": no exception, nothing written
                  Raised(NoValue, cats)
             ELSE IF UniqueViolation(updated)
             THEN Raised("IntegrityError", cats)
             ELSE Raised(NoValue, updated)

\* BookCategoryService.replace_book_category
ReplaceBookCategoryResult(cats, category_id, replacement_data) ==
    IF category_id \notin 1..Len(cats)
    THEN Raised("ValueError", cats)
    ELSE LET new_name == IF replacement_data.name = Absent
                         THEN ""
                         ELSE Strip(replacement_data.name)
             existing_name == {i \in CategoryNamed(cats, new_name) : i # category_id}
             description == IF replacement_data.description = Absent
                            THEN NoValue
                            ELSE StripOrNone(replacement_data.description)
             replaced == [cats EXCEPT ![category_id] =
                             [name |-> new_name, description |-> description]]
         IN  IF new_name # "" /\ existing_name # {}
             THEN Raised("ValueError", cats)
             ELSE IF UniqueViolation(replaced)
             THEN Raised("IntegrityError", cats)
             ELSE Raised(NoValue, replaced)

\* the payloads of the update and replace calls
CategoryPayloads ==
    [name : RawNames \cup {Absent}, description : RawDescriptions \cup {Absent}]

\* a call of BookCategoryService.create_book_category
CreateBookCategory(name, description) ==
    LET r == CreateBookCategoryResult(categories, name, description)
    IN  /\ r.raised = NoValue => Len(categories) < MaxCategories
        /\ categories' = r.categories
        /\ response' = [op |-> "create_book_category", name |-> name,
                        description |-> description, raised |-> r.raised]
        /\ UNCHANGED <<shop_vars, outbox, account_vars>>

\* a call of BookCategoryService.update_book_category
UpdateBookCategory(category_id, update_data) ==
    LET r == UpdateBookCategoryResult(categories, category_id, update_data)
    IN  /\ categories' = r.categories
        /\ response' = [op |-> "update_book_category", id |-> category_id,
                        data |-> update_data, raised |-> r.raised]
        /\ UNCHANGED <<shop_vars, outbox, account_vars>>

\* a call of BookCategoryService.replace_book_category
ReplaceBookCategory(category_id, replacement_data) ==
    LET r == ReplaceBookCategoryResult(categories, category_id, replacement_data)
    IN  /\ categories' = r.categories
        /\ response' = [op |-> "replace_book_category", id |-> category_id,
                        data |-> replacement_data, raised |-> r.raised]
        /\ UNCHANGED <<shop_vars, outbox, account_vars>>

\* admin_required letting every authenticated user through
IsAdmin_Anyone(roles) == TRUE

\* admin_required: any(role.name.lower() == 'admin' for role in roles)
IsAdmin(roles) == \E role \in roles : Lower(role) = "admin"

\* BookCategorySchema.validate_name: the name as sent is the name of a
\* category other than the one in the schema's context
SchemaNameTaken(cats, data, category_id) ==
    /\ data.name # Absent
    /\ \E i \in CategoryNamed(cats, data.name) : i # category_id

\* POST /book-categories: token_required, admin_required, the schema and
\* BookCategoryService.create_book_category
CreateBookCategoryRequest(requester, data) ==
    LET req == [op |-> "POST /book-categories", requester |-> requester,
                data |-> data]
        Reply(code) == req @@ [code |-> code]
        r == CreateBookCategoryResult(categories, data.name,
                IF data.description = Absent THEN NoValue ELSE data.description)
    IN  /\ UNCHANGED <<shop_vars, outbox, account_vars>>
        /\ IF requester \notin DOMAIN RolesOf
           THEN \* bad_request_error('Token is missing')
                /\ response' = Reply(400)
                /\ UNCHANGED categories
           ELSE IF ~ IsAdmin(RolesOf[requester])
           THEN \* unauthorized_error("Admin access required")
                /\ response' = Reply(401)
                /\ UNCHANGED categories
           ELSE IF SchemaNameTaken(categories, data, 0)
           THEN /\ response' = Reply(400)
                /\ UNCHANGED categories
           ELSE IF data.name = Absent
           THEN \* validated_data['name'] is a KeyError
                /\ response' = Reply(500)
                /\ UNCHANGED categories
           ELSE /\ r.raised = NoValue => Len(categories) < MaxCategories
                /\ categories' = r.categories
                /\ response' = Reply(CASE r.raised = NoValue -> 201
                                       [] r.raised = "ValueError" -> 400
                                       [] OTHER -> 500)

\* PUT /book-categories/<category_id>: token_required, admin_required, the
\* schema and BookCategoryService.replace_book_category
ReplaceBookCategoryRequest(requester, category_id, data) ==
    LET req == [op |-> "PUT /book-categories", requester |-> requester,
                id |-> category_id, data |-> data]
        Reply(code) == req @@ [code |-> code]
        r == ReplaceBookCategoryResult(categories, category_id, data)
    IN  /\ UNCHANGED <<shop_vars, outbox, account_vars>>
        /\ IF requester \notin DOMAIN RolesOf
           THEN /\ response' = Reply(400)
                /\ UNCHANGED categories
           ELSE IF ~ IsAdmin(RolesOf[requester])
           THEN /\ response' = Reply(401)
                /\ UNCHANGED categories
           ELSE IF SchemaNameTaken(categories, data, category_id)
           THEN /\ response' = Reply(400)
                /\ UNCHANGED categories
           ELSE /\ categories' = r.categories
                /\ response' = Reply(CASE r.raised = NoValue -> 200
                                       [] r.raised = "ValueError" -> 404
                                       [] OTHER -> 500)

\* ---------------------------------------------------------------- password reset
\* the addresses a forgot-password request may carry: the two accounts, an
\* address without account, and a text that is no address
RequestEmails == Registered \cup {"nobody@example.com", "not-an-email"}

\* fields.Email of PasswordResetRequestSchema
IsEmail(text) == text # "not-an-email"

\* what can become of a mail: handed to the server by the sender thread,
\* failed while the message was prepared (template, configuration, thread
\* start), or failed in the sender thread
MailOutcomes == {"sent", "prepare_error", "smtp_error"}

\* the passwords a reset request may carry
RequestPasswords == {"Newpass#2025", "short"}

\* secrets.token_urlsafe(32): the n-th call returns a text no earlier call
\* returned (256 random bits)
TokenUrlsafe == <<"Zk3q", "p9Xw", "Lm2r", "aT7c">>

\* the tokens a reset request may carry: the ones that can be handed out
RequestTokens == {TokenUrlsafe[n] : n \in 1..MaxTokens}

\* timedelta(hours=1) of generate_reset_token
ResetTokenHours == 1

\* the answer of forgot_password after initiate_password_reset has returned
ResetInstructions ==
    "If your email is registered, you will receive password reset instructions"

\* send_email raising towards its caller: only what happens before the
\* sender thread is started is raised in the request
SendEmailRaises(mail) == mail = "prepare_error"

\* a token check that does not look at the clock
VerifyResetToken_IgnoresExpiry(user, token, now) == user.reset_token = token

\* User.verify_reset_token
VerifyResetToken(user, token, now) ==
    ~ ( \/ user.reset_token # token
        \/ user.reset_token_expires < now )

\* "not User.validate_password(new_password)": validate_password returns a
\* pair, and a pair is true whatever it holds
PasswordRefused(password) == FALSE

\* POST /auth/forgot-password: the schema, AuthService.initiate_password_reset
\* with User.generate_reset_token and send_password_reset_email
ForgotPassword(email, mail) ==
    LET req == [op |-> "forgot_password", email |-> email, mail |-> mail]
        Reply(code, message) == req @@ [code |-> code, message |-> message]
        token == TokenUrlsafe[issued + 1]
    IN  /\ UNCHANGED <<shop_vars, categories, utcnow>>
        /\ IF ~ IsEmail(email)
           THEN /\ response' = Reply(400, "Not a valid email address.")
                /\ UNCHANGED <<users, issued, outbox>>
           ELSE IF email \notin DOMAIN users
           THEN /\ response' = Reply(200, ResetInstructions)
                /\ UNCHANGED <<users, issued, outbox>>
           ELSE /\ issued < MaxTokens
                /\ issued' = issued + 1
                /\ users' = [users EXCEPT
                               ![email].reset_token = token,
                               ![email].reset_token_expires = utcnow + ResetTokenHours]
                /\ outbox' = IF mail = "sent"
                             THEN outbox \cup {[kind |-> "reset", email |-> email,
                                                token |-> token]}
                             ELSE outbox
                /\ response' = IF SendEmailRaises(mail)
                               THEN Reply(500, "Error processing password reset")
                               ELSE Reply(200, ResetInstructions)

\* POST /auth/reset-password/<token>: the schema and AuthService.reset_password
ResetPassword(token, new_password) ==
    LET req == [op |-> "reset_password", token |-> token,
                new_password |-> new_password]
        Reply(code, message) == req @@ [code |-> code, message |-> message]
        found == {e \in DOMAIN users : users[e].reset_token = token}
    IN  /\ UNCHANGED <<shop_vars, categories, utcnow, issued, outbox>>
        /\ IF Len(new_password) < 8
           THEN /\ response' = Reply(400, "Password must be at least 8 characters long")
                /\ UNCHANGED users
           ELSE IF \/ found = {}
                   \/ \E e \in found : ~ VerifyResetToken(users[e], token, utcnow)
           THEN /\ response' = Reply(400, "Invalid or expired reset token")
                /\ UNCHANGED users
           ELSE IF PasswordRefused(new_password)
           THEN /\ response' = Reply(400, "Password does not meet requirements")
                /\ UNCHANGED users
           ELSE /\ \E e \in found :
                      users' = [users EXCEPT ![e] =
                                  [password_hash |-> PasswordHash(new_password),
                                   reset_token |-> NoValue,
                                   reset_token_expires |-> NoValue]]
                /\ response' = Reply(200, "Password has been reset successfully")

\* an hour passes
Tick ==
    /\ utcnow < MaxHours
    /\ utcnow' = utcnow + 1
    /\ UNCHANGED <<shop_vars, response, outbox, categories, users, issued>>

\* ---------------------------------------------------------------- specifications
\* the requests of the cart engine, and the catalog admin restocking and writing
\* stock down
NextCart ==
    \/ \E u \in Users, r \in AddRequests : AddToCart(u, r[1], r[2])
    \/ \E u \in Users, r \in UpdateRequests : UpdateCartItem(u, r[1], r[2])
    \/ \E u \in Users, b \in BookIds : RemoveCartItem(u, b)
    \/ \E u \in Users : ClearCart(u)
    \/ \E b \in BookIds, p \in StockPayloads : UpdateBook(b, p)

SpecCart == Init /\ [][NextCart]_vars

\* a catalog with full shelves
InitOrder ==
    /\ Init
    /\ books["b1"].price = 1000
    /\ books["b2"].price = 1004
    /\ \A b \in BookIds : books[b].stock_quantity = MaxStock

\* checkout: customers fill carts and order from them while the catalog admin
\* restocks and writes stock down
NextCheckout ==
    \/ \E u \in Users, b \in BookIds, q \in 1..MaxStock : AddToCart(u, b, q)
    \/ \E b \in BookIds, p \in StockPayloads : UpdateBook(b, p)
    \/ \E u \in Users, c \in 1..(Cardinality(Users) + 1),
          pm \in RequestPaymentMethods : CreateOrder(u, c, pm)

SpecCheckout == InitOrder /\ [][NextCheckout]_vars

\* the life of orders: customers fill carts with one title, order, pay and
\* cancel, and the admin overrides statuses (orders of several lines are the
\* subject of SpecCheckout)
NextOrder ==
    \/ \E u \in Users, q \in 1..MaxStock : AddToCart(u, "b1", q)
    \/ \E u \in Users, c \in 1..(Cardinality(Users) + 1),
          pm \in RequestPaymentMethods : CreateOrder(u, c, pm)
    \/ \E r \in PaymentRequests : ProcessPayment(r[1], r[2])
    \/ \E o \in CancelRequests : CancelOrder(o)
    \/ \E r \in StatusRequests : AdminUpdateOrderStatus(r[1], r[2])

SpecOrder == InitOrder /\ [][NextOrder]_vars

\* side by side: two workers serve the add-to-cart and create-order requests
\* of one customer for one title, and a payment and a cancellation of the
\* first order come in between
NextRace ==
    \/ \E w \in Workers, u \in Users, q \in 1..MaxStock :
          AddToCartLookup(w, u, "b1", q)
    \/ \E w \in Workers : AddToCartCommit(w)
    \/ \E w \in Workers, u \in Users, c \in 1..Cardinality(Workers) :
          CreateOrderLookup(w, u, c, "stripe")
    \/ \E w \in Workers : CreateOrderCommit(w)
    \/ ProcessPayment(1, "t1")
    \/ CancelOrder(1)

SpecRace == InitOrder /\ [][NextRace]_vars

\* repricing: customers add to and update their carts while the catalog admin
\* changes prices
NextPrice ==
    \/ \E u \in Users, b \in BookIds, q \in 1..MaxStock : AddToCart(u, b, q)
    \/ \E u \in Users, b \in BookIds, q \in 0..MaxStock : UpdateCartItem(u, b, q)
    \/ \E b \in BookIds, p \in PricePayloads : UpdateBook(b, p)

SpecPrice == Init /\ [][NextPrice]_vars

\* ordering at changing prices: customers fill carts and order from them while
\* the catalog admin changes prices
NextQuote ==
    \/ \E u \in Users, b \in BookIds, q \in 1..MaxStock : AddToCart(u, b, q)
    \/ \E b \in BookIds, p \in PricePayloads : UpdateBook(b, p)
    \/ \E u \in Users, c \in 1..Cardinality(Users) : CreateOrder(u, c, "stripe")

SpecQuote == InitOrder /\ [][NextQuote]_vars

\* whose cart: two customers fill and clear their carts and order from any
\* cart id, their own, the other's or nobody's
NextOwner ==
    \/ \E u \in Customers, q \in 1..MaxStock : AddToCart(u, "b1", q)
    \/ \E u \in Customers : ClearCart(u)
    \/ \E u \in Customers, c \in 1..(Cardinality(Customers) + 1) :
          CreateOrder(u, c, "stripe")

SpecOwner == InitOrder /\ [][NextOwner]_vars

\* one request at a time, more than one order: a single worker serves the
\* add-to-cart and create-order requests of a customer
NextReorder ==
    \/ \E u \in Users, b \in BookIds, q \in 1..MaxStock :
          AddToCartLookup("w1", u, b, q)
    \/ AddToCartCommit("w1")
    \/ \E u \in Users, c \in 1..(Cardinality(Users) + 1),
          pm \in RequestPaymentMethods : CreateOrderLookup("w1", u, c, pm)
    \/ CreateOrderCommit("w1")

SpecReorder == InitOrder /\ [][NextReorder]_vars

\* invoices: customers order while the mail server comes and goes
NextInvoice ==
    \/ \E u \in Users, b \in BookIds, q \in 1..MaxStock : AddToCart(u, b, q)
    \/ \E u \in Users, c \in 1..(Cardinality(Users) + 1), mail_ok \in BOOLEAN :
          CreateOrderWith(u, c, "stripe", mail_ok)

SpecInvoice == InitOrder /\ [][NextInvoice]_vars

\* the category service, called as its unit tests call it
NextCategoryService ==
    \/ \E n \in RawNames, d \in RawDescriptions \cup {NoValue} :
          CreateBookCategory(n, d)
    \/ \E i \in 1..(MaxCategories + 1), data \in CategoryPayloads :
          UpdateBookCategory(i, data)
    \/ \E i \in 1..(MaxCategories + 1), data \in CategoryPayloads :
          ReplaceBookCategory(i, data)

SpecCategoryService == InitOrder /\ [][NextCategoryService]_vars

\* the category routes, called by admins, customers and strangers
NextCategoryApi ==
    \/ \E who \in Requesters, data \in CategoryPayloads :
          CreateBookCategoryRequest(who, data)
    \/ \E who \in Requesters, i \in 1..(MaxCategories + 1), data \in CategoryPayloads :
          ReplaceBookCategoryRequest(who, i, data)

SpecCategoryApi == InitOrder /\ [][NextCategoryApi]_vars

\* two workers serve add-to-cart requests for single copies side by side
NextAddRace ==
    \/ \E w \in Workers, u \in Users, b \in BookIds : AddToCartLookup(w, u, b, 1)
    \/ \E w \in Workers : AddToCartCommit(w)

\* a catalog with one copy left of every title
InitLastCopy ==
    /\ Init
    /\ books["b1"].price = 1000
    /\ books["b2"].price = 1004
    /\ \A b \in BookIds : books[b].stock_quantity = 1

SpecAddRace == InitLastCopy /\ [][NextAddRace]_vars

\* accounts: reset tokens are asked for and used while time passes
NextAccount ==
    \/ \E e \in RequestEmails, mail \in MailOutcomes : ForgotPassword(e, mail)
    \/ \E t \in RequestTokens, p \in RequestPasswords : ResetPassword(t, p)
    \/ Tick

SpecAccount == InitOrder /\ [][NextAccount]_vars

\* ---------------------------------------------------------------- properties
\* quantity of a book in the user's active cart, 0 when it is not there
QuantityInActiveCart(user_id, book_id) ==
    LET matching == ItemsOfCartBook(cart_items, FirstActiveCart(user_id), book_id)
    IN  IF matching = {} THEN 0 ELSE (CHOOSE i \in matching : TRUE).quantity

\* total quantity of a book over a list of lines (cart lines or order items)
RECURSIVE LinesQuantity(_, _)
LinesQuantity(lines, book_id) ==
    IF lines = <<>> THEN 0
    ELSE (IF Head(lines).book_id = book_id THEN Head(lines).quantity ELSE 0)
         + LinesQuantity(Tail(lines), book_id)

CartMutations == {"add_to_cart", "update_cart_item", "remove_cart_item", "clear_cart"}

C2_AddRejectedBeyondStock ==
    [][ ( /\ response'.op = "add_to_cart"
          /\ response'.quantity > 0
          /\ response'.book \in DOMAIN books
          /\ QuantityInActiveCart(response'.user, response'.book)
               + response'.quantity > books[response'.book].stock_quantity )
        => ( /\ response'.code = 400
             /\ response'.error = "Insufficient stock"
             /\ UNCHANGED <<carts, cart_items, books, orders, logs>> ) ]_vars

\* an add was refused although the requested quantity alone was in stock: the
\* quantity already in the cart made the difference
C2_Witness ==
    /\ response.op = "add_to_cart"
    /\ response.error = "Insufficient stock"
    /\ response.book \in DOMAIN books
    /\ QuantityInActiveCart(response.user, response.book) > 0
    /\ response.quantity <= books[response.book].stock_quantity

\* C3: a successful remove_cart_item on a line item of quantity 1 deletes the
\* line and reports removed_completely; on quantity n > 1 it leaves the line
\* with quantity n - 1 and subtotal round((n - 1) * price_at_addition, 2) and
\* reports removed_completely = false.
C3_RemoveTakesOne ==
    [][ (response'.op = "remove_cart_item" /\ response'.code = 200)
        => LET c == FirstActiveCart(response'.user)
               before == ItemsOfCartBook(cart_items, c, response'.book)
               after == ItemsOfCartBook(cart_items', c, response'.book)
           IN  /\ before # {}
               /\ \A i \in before :
                    IF i.quantity = 1
                    THEN /\ after = {}
                         /\ response'.removed_completely = TRUE
                    ELSE /\ after = {[i EXCEPT
                               !.quantity = i.quantity - 1,
                               !.subtotal = Round2((i.quantity - 1)
                                                   * i.price_at_addition)]}
                         /\ response'.removed_completely = FALSE ]_vars

\* a line of quantity 2 at a price with thousandths was reduced to quantity 1
C3_Witness ==
    /\ response.op = "remove_cart_item"
    /\ response.code = 200
    /\ response.removed_completely = FALSE
    /\ response.previous_quantity = 2
    /\ \E i \in cart_items : /\ i.book_id = response.book
                             /\ i.quantity = 1
                             /\ i.price_at_addition = 1004
                             /\ i.subtotal = 1000

\* C4: a create-order request whose cart has a line with more copies than the
\* book's stock_quantity is refused, persists no order and leaves every book's
\* stock_quantity as it was, whatever earlier lines of the request had passed.
C4_CreateRejectedBeyondStock ==
    [][ ( /\ response'.op = "create_order"
          /\ LET lines == UserCartItemsByCartId(response'.user, response'.cart)
             IN  \E k \in 1..Len(lines) :
                    lines[k].quantity > books[lines[k].book_id].stock_quantity )
        => ( /\ response'.code # 201
             /\ UNCHANGED <<books, orders>> ) ]_vars

\* a create-order request was refused at its second line after the first line
\* had passed its check
C4_Witness ==
    /\ response.op = "create_order"
    /\ response.error = "Insufficient stock"
    /\ orders = <<>>
    /\ LET lines == UserCartItemsByCartId(response.user, response.cart)
       IN  /\ Len(lines) = 2
           /\ lines[1].quantity <= books[lines[1].book_id].stock_quantity
           /\ lines[2].quantity > books[lines[2].book_id].stock_quantity

\* C5: a successful create-order request lowers the stock_quantity of each
\* book by exactly the quantity of its line and leaves the books without a
\* line (and every price) as they were.
C5_CreateDecrementsExactly ==
    [][ (response'.op = "create_order" /\ response'.code = 201)
        => LET lines == UserCartItemsByCartId(response'.user, response'.cart)
           IN  \A b \in DOMAIN books :
                  /\ books'[b].stock_quantity =
                        books[b].stock_quantity - LinesQuantity(lines, b)
                  /\ books'[b].price = books[b].price ]_vars

\* an order of two copies of one book was created while the other book was on
\* the shelf
C5_Witness ==
    /\ response.op = "create_order"
    /\ response.code = 201
    /\ LET items == orders[response.order].order_items
       IN  /\ Len(items) = 1
           /\ items[1].quantity = 2
           /\ \E b \in DOMAIN books : /\ b # items[1].book_id
                                      /\ books[b].stock_quantity > 0

\* C6: cancel_order on an order in PENDING or PROCESSING sets it to CANCELLED
\* and gives every ordered book its quantity back.
C6_CancelRestoresStock ==
    [][ ( /\ response'.op = "cancel_order"
          /\ response'.order \in 1..Len(orders)
          /\ orders[response'.order].status \in {PENDING, PROCESSING} )
        => ( /\ orders'[response'.order].status = CANCELLED
             /\ \A b \in DOMAIN books :
                   books'[b].stock_quantity =
                      books[b].stock_quantity
                      + LinesQuantity(orders[response'.order].order_items, b) )
      ]_vars

\* C7: cancel_order on an order that is PAID, SHIPPED, COMPLETED or CANCELLED
\* is refused with "Order cannot be cancelled" and changes neither the orders
\* nor the books.
C7_CancelRejectedWhenSettled ==
    [][ ( /\ response'.op = "cancel_order"
          /\ response'.order \in 1..Len(orders)
          /\ orders[response'.order].status
                \in {PAID, SHIPPED, COMPLETED, CANCELLED} )
        => ( /\ response'.code = 400
             /\ response'.error = "Order cannot be cancelled"
             /\ UNCHANGED <<orders, books>> ) ]_vars

\* the cancellation of a PAID order was refused
C7_Witness ==
    /\ response.op = "cancel_order"
    /\ response.error = "Order cannot be cancelled"
    /\ response.order \in 1..Len(orders)
    /\ orders[response.order].status = PAID

\* C8: process_payment on an order that is not PENDING is refused with
\* "Order cannot be paid" and changes neither the order (status,
\* payment_transaction_id) nor the books.
C8_PaymentRejectedUnlessPending ==
    [][ ( /\ response'.op = "process_payment"
          /\ response'.order \in 1..Len(orders)
          /\ orders[response'.order].status # PENDING )
        => ( /\ response'.code = 400
             /\ response'.error = "Order cannot be paid"
             /\ UNCHANGED <<orders, books>> ) ]_vars

\* the payment of a CANCELLED order, with a transaction id, was refused
C8_Witness ==
    /\ response.op = "process_payment"
    /\ response.error = "Order cannot be paid"
    /\ response.transaction # NoTransaction
    /\ response.order \in 1..Len(orders)
    /\ orders[response.order].status = CANCELLED
    /\ orders[response.order].payment_transaction_id = NoTransaction

\* C9: process_payment on a PENDING order succeeds and moves it to PROCESSING
\* when its payment method is order_on_delivery, and otherwise to PAID with
\* the given payment_transaction_id recorded.
C9_PaymentMovesPendingOrder ==
    [][ ( /\ response'.op = "process_payment"
          /\ response'.order \in 1..Len(orders)
          /\ orders[response'.order].status = PENDING )
        => ( /\ response'.code = 200
             /\ IF orders[response'.order].payment_method = ORDER_ON_DELIVERY
                THEN orders'[response'.order].status = PROCESSING
                ELSE /\ orders'[response'.order].status = PAID
                     /\ orders'[response'.order].payment_transaction_id
                           = response'.transaction ) ]_vars

\* position of a status on the line PENDING -> ... -> COMPLETED
StatusRank(status) ==
    CASE status = PENDING -> 1
      [] status = PROCESSING -> 2
      [] status = PAID -> 3
      [] status = SHIPPED -> 4
      [] status = COMPLETED -> 5
      [] OTHER -> 0

\* the status changes the state machine of the order engine allows
AllowedStatusChange(old, new) ==
    \/ /\ old # CANCELLED
       /\ new # CANCELLED
       /\ StatusRank(old) < StatusRank(new)
    \/ /\ new = CANCELLED
       /\ old \in {PENDING, PROCESSING}

\* C10: whatever the operation, an order's status either stays, moves forward
\* along PENDING -> PROCESSING -> PAID -> SHIPPED -> COMPLETED, or becomes
\* CANCELLED from PENDING or PROCESSING.
C10_StatusOnlyMovesForward ==
    [][ \A o \in 1..Len(orders) :
           \/ orders'[o].status = orders[o].status
           \/ AllowedStatusChange(orders[o].status, orders'[o].status) ]_vars

\* C11: an admin_update_order_status request on an existing order with a valid
\* status name (in either case) succeeds, sets the order's status to the named
\* member whatever the status was, leaves the other orders alone and appends
\* exactly one audit entry with the status before and the status after.
C11_AdminSetsStatusAndLogs ==
    [][ ( /\ response'.op = "admin_update_order_status"
          /\ response'.order \in 1..Len(orders)
          /\ Upper(response'.status) \in DOMAIN OrderStatusByName )
        => LET o == response'.order
           IN  /\ response'.code = 200
               /\ orders'[o].status = OrderStatusByName[Upper(response'.status)]
               /\ \A p \in 1..Len(orders) : p # o => orders'[p] = orders[p]
               /\ Len(logs') = Len(logs) + 1
               /\ SubSeq(logs', 1, Len(logs)) = logs
               /\ logs'[Len(logs')].order_id = o
               /\ logs'[Len(logs')].previous_status = orders[o].status
               /\ logs'[Len(logs')].new_status = orders'[o].status ]_vars

\* the admin took an order back from a later status to PENDING, and the audit
\* entry says so
C11_Witness ==
    /\ response.op = "admin_update_order_status"
    /\ response.code = 200
    /\ Len(logs) = 2
    /\ logs[2].previous_status \in {PAID, SHIPPED, COMPLETED, CANCELLED}
    /\ logs[2].new_status = PENDING
    /\ orders[response.order].status = PENDING

\* C12: the audit log is append-only: in every step the log before the step is
\* a prefix of the log after it.
C12_LogAppendOnly ==
    [][ /\ Len(logs') >= Len(logs)
        /\ SubSeq(logs', 1, Len(logs)) = logs ]_vars

\* the log has two entries, the second was appended behind the first, and
\* requests of customers came after them
C12_Witness ==
    /\ Len(logs) = 2
    /\ logs[1].new_status = logs[2].previous_status
    /\ logs[1] # logs[2]
    /\ response.op \in {"cancel_order", "process_payment", "create_order", "add_to_cart"}

\* C13: no user has two carts with status 'active' at the same time, also when
\* add_to_cart requests of one user run side by side.
C13_OneActiveCartPerUser ==
    \A u \in Users : Cardinality(ActiveCarts(u)) <= 1

\* C14: every cart line's subtotal is its quantity times the price snapshotted
\* when the line was created (here up to the rounding to two decimals that
\* the cart engine applies), also after the book was repriced.
C14_SubtotalFromSnapshot ==
    \A i \in cart_items :
        Round2(i.subtotal) = Round2(i.quantity * i.price_at_addition)

\* C15: update_cart_item(user, book, q) for a book in the user's active cart:
\* with q = 0 it deletes the line and keeps the cart row (with totals 0 when no
\* line is left); with 0 < q <= stock_quantity it leaves the line with quantity
\* exactly q, whatever quantity it had; with q > stock_quantity it is refused
\* and carts and lines stay as they were.  The other lines are never touched.
C15_UpdateSetsQuantity ==
    [][ ( /\ response'.op = "update_cart_item"
          /\ response'.quantity >= 0
          /\ response'.book \in DOMAIN books
          /\ QuantityInActiveCart(response'.user, response'.book) > 0 )
        => LET c == FirstActiveCart(response'.user)
               q == response'.quantity
               before == ItemsOfCartBook(cart_items, c, response'.book)
               after == ItemsOfCartBook(cart_items', c, response'.book)
               others == cart_items \ before
           IN  IF q > books[response'.book].stock_quantity
               THEN /\ response'.code = 400
                    /\ response'.error = "Insufficient stock"
                    /\ UNCHANGED <<carts, cart_items>>
               ELSE /\ response'.code = 200
                    /\ cart_items' \ after = others
                    /\ Len(carts') = Len(carts)
                    /\ carts'[c].status = "active"
                    /\ carts'[c].user_id = response'.user
                    /\ IF q = 0
                       THEN /\ after = {}
                            /\ ItemsOfCart(cart_items', c) = {} =>
                                  /\ carts'[c].total_items = 0
                                  /\ carts'[c].total_price = 0
                       ELSE /\ Cardinality(after) = 1
                            /\ \A i \in after : i.quantity = q ]_vars

\* an update to the whole stock of the book was accepted for a line that
\* already held copies: previous quantity plus q is beyond the stock
C15_Witness ==
    /\ response.op = "update_cart_item"
    /\ response.code = 200
    /\ response.quantity > 0
    /\ response.quantity = books[response.book].stock_quantity
    /\ QuantityInActiveCart(response.user, response.book) = response.quantity

\* sum of the prices of a list of order items
RECURSIVE SumPrice(_)
SumPrice(order_items) ==
    IF order_items = <<>> THEN 0
    ELSE Head(order_items).price + SumPrice(Tail(order_items))

\* C16: a successful create-order request appends one order, in PENDING, of
\* the requesting user, whose items are the lines of the cart (book and
\* quantity, line by line), each priced at the book's current price times the
\* quantity, and whose total_amount is the sum of the items' prices.
C16_OrderFromCart ==
    [][ (response'.op = "create_order" /\ response'.code = 201)
        => LET lines == UserCartItemsByCartId(response'.user, response'.cart)
               order == orders'[Len(orders')]
               items == order.order_items
           IN  /\ orders' = Append(orders, order)
               /\ response'.order = Len(orders')
               /\ order.status = PENDING
               /\ order.user_id = response'.user
               /\ lines # <<>>
               /\ Len(items) = Len(lines)
               /\ \A k \in 1..Len(lines) :
                     /\ items[k].book_id = lines[k].book_id
                     /\ items[k].quantity = lines[k].quantity
                     /\ items[k].price =
                           books[lines[k].book_id].price * lines[k].quantity
               /\ order.total_amount = SumPrice(items) ]_vars

\* an order of two lines was created, one of them of two copies of a book
\* that was repriced after it went into the cart
C16_Witness ==
    /\ response.op = "create_order"
    /\ response.code = 201
    /\ LET items == orders[response.order].order_items
       IN  /\ Len(items) = 2
           /\ \E k \in 1..2 : \E i \in cart_items :
                 /\ i.cart_id = response.cart
                 /\ i.book_id = items[k].book_id
                 /\ items[k].quantity = 2
                 /\ items[k].price # 2 * i.price_at_addition

RECURSIVE OrderedQuantity(_, _)
OrderedQuantity(order_rows, book_id) ==
    IF order_rows = <<>> THEN 0
    ELSE LinesQuantity(Head(order_rows).order_items, book_id)
         + OrderedQuantity(Tail(order_rows), book_id)

\* C18: no oversell when create-order requests run side by side: the copies
\* of a book in all created orders never exceed the stock the book had before
\* the requests (the full shelf of the initial state; nothing restocks).
C18_NoOversell ==
    \A b \in BookIds : OrderedQuantity(orders, b) <= MaxStock

\* C19: the stock_quantity of every book is at least 0 in every state, however
\* the requests interleave.
C19_StockNeverNegative ==
    \A b \in DOMAIN books : books[b].stock_quantity >= 0

\* two create-order requests that ran side by side have both committed: more
\* copies are ordered than the shelf held, and the shelf is at 0
C19_Witness ==
    /\ response.op = "create_order"
    /\ response.code = 201
    /\ OrderedQuantity(orders, "b1") > MaxStock
    /\ books["b1"].stock_quantity = 0

\* C20: a create-order request that names a cart id which is no cart, is a
\* cart of another user, is not active or has no line items is refused,
\* creates no order and changes no stock.
C20_OrderOnlyFromOwnCart ==
    [][ ( /\ response'.op = "create_order"
          /\ ~ ( /\ response'.cart \in 1..Len(carts)
                 /\ carts[response'.cart].user_id = response'.user
                 /\ carts[response'.cart].status = "active"
                 /\ ItemsOfCart(cart_items, response'.cart) # {} ) )
        => ( /\ response'.code \notin {200, 201}
             /\ UNCHANGED <<orders, books>> ) ]_vars

\* a customer's request for the filled cart of the other customer was refused
\* while the shelf had the copies and no order existed
C20_Witness ==
    /\ response.op = "create_order"
    /\ response.code \notin {200, 201}
    /\ response.cart \in 1..Len(carts)
    /\ carts[response.cart].user_id # response.user
    /\ orders = <<>>
    /\ \E i \in cart_items :
          /\ i.cart_id = response.cart
          /\ i.quantity <= books[i.book_id].stock_quantity

\* C21: order creation consumes the cart: when the request answered right
\* after a successful create-order request is a create-order request for the
\* same cart (so no add_to_cart came in between), it creates no order and
\* changes no stock.
C21_CartConsumedByOrder ==
    [][ ( /\ response.op = "create_order"
          /\ response.code = 201
          /\ response'.op = "create_order"
          /\ response'.cart = response.cart
          /\ response' # response )
        => ( /\ response'.code # 201
             /\ UNCHANGED <<orders, books>> ) ]_vars

\* C22: a create-order request for a filled cart of the user whose lines the
\* stock covers succeeds whether or not the invoice mail can be sent: the
\* caller gets 201, the order is persisted in PENDING and every book's
\* stock_quantity is lowered by what was ordered.
C22_InvoiceFailureSwallowed ==
    [][ ( /\ response'.op = "create_order"
          /\ LET lines == UserCartItemsByCartId(response'.user, response'.cart)
             IN  /\ lines # <<>>
                 /\ \A b \in DOMAIN books :
                       LinesQuantity(lines, b) <= books[b].stock_quantity )
        => LET lines == UserCartItemsByCartId(response'.user, response'.cart)
           IN  /\ response'.code = 201
               /\ Len(orders') = Len(orders) + 1
               /\ SubSeq(orders', 1, Len(orders)) = orders
               /\ orders'[Len(orders')].status = PENDING
               /\ \A b \in DOMAIN books :
                     books'[b].stock_quantity =
                        books[b].stock_quantity - LinesQuantity(lines, b) ]_vars

\* an order was created and answered with 201 although its invoice mail was
\* lost
C22_Witness ==
    /\ response.op = "create_order"
    /\ response.code = 201
    /\ orders[response.order].status = PENDING
    /\ \A m \in outbox : m.order # response.order
    /\ \E b \in DOMAIN books : books[b].stock_quantity < MaxStock

\* C23: category names are unique: a create_book_category call whose name,
\* stripped, is the name of a category raises ValueError and adds none, and
\* whatever create, update and replace calls were made, no two categories
\* carry the same name.
C23_CategoryNamesUnique ==
    [][ /\ \A i, j \in 1..Len(categories') :
              i # j => categories'[i].name # categories'[j].name
        /\ ( /\ response'.op = "create_book_category"
             /\ CategoryNamed(categories, Strip(response'.name)) # {} )
           => ( /\ response'.raised = "ValueError"
                /\ categories' = categories ) ]_vars

\* with two categories in the table, one of them left without a name by a
\* replace call, a create call is refused for its name
C23_Witness ==
    /\ response.op = "create_book_category"
    /\ response.raised = "ValueError"
    /\ Len(categories) = 2
    /\ \E i \in 1..Len(categories) : categories[i].name = ""

\* C24: an update_book_category call that renames a category to the name of
\* another one raises ValueError and leaves the table as it was.
C24_RenameToTakenNameRaises ==
    [][ ( /\ response'.op = "update_book_category"
          /\ response'.id \in 1..Len(categories)
          /\ response'.data.name # Absent
          /\ \E i \in CategoryNamed(categories, Strip(response'.data.name)) :
                i # response'.id )
        => ( /\ response'.raised = "ValueError"
             /\ categories' = categories ) ]_vars

C26_NoLostDecrement ==
    \A b \in BookIds :
        books[b].stock_quantity = MaxStock - OrderedQuantity(orders, b)

\* C27: a cart holds at most one line per book: no two rows of cart_items
\* share cart_id and book_id, also when add-to-cart requests of one user for
\* one book run side by side.
C27_OneLinePerBook ==
    \A i, j \in cart_items :
        (i.cart_id = j.cart_id /\ i.book_id = j.book_id) => i = j

\* C28: a process_payment call that passes the PENDING test and then fails
\* leaves the order and the books as they were: the order is still PENDING
\* without a transaction id, and no stock has moved.
C28_FailedPaymentLeavesOrderPending ==
    [][ ( /\ response'.op = "process_payment"
          /\ response'.order \in 1..Len(orders)
          /\ orders[response'.order].status = PENDING
          /\ response'.code # 200 )
        => ( /\ orders' = orders
             /\ books' = books
             /\ orders'[response'.order].status = PENDING
             /\ orders'[response'.order].payment_transaction_id = NoTransaction ) ]_vars

\* a payment of a pending order has failed on the stock bookkeeping, and the
\* order is pending
C28_Witness ==
    /\ response.op = "process_payment"
    /\ response.error = "Payment processing failed"
    /\ response.order \in 1..Len(orders)
    /\ orders[response.order].status = PENDING
    /\ orders[response.order].payment_transaction_id = NoTransaction
    /\ orders[response.order].order_items # <<>>

\* C29: a reset-password request changes a password only when its token is
\* the reset token some user holds at that moment and that token has not
\* expired; it then sets that user's password, no other, and the token is
\* gone. A token that was used, replaced by a newer one or has expired is
\* refused and changes nothing.
C29_ResetTokenSingleUse ==
    [][ ( /\ response'.op = "reset_password"
          /\ utcnow' = utcnow )
        => LET t == response'.token
               holders == {e \in DOMAIN users :
                              /\ users[e].reset_token = t
                              /\ users[e].reset_token_expires >= utcnow}
           IN  /\ holders = {} => ( /\ response'.code = 400
                                    /\ users' = users )
               /\ response'.code = 200 =>
                     \A e \in DOMAIN users :
                        IF e \in holders
                        THEN /\ users'[e].reset_token = NoValue
                             /\ users'[e].password_hash =
                                   PasswordHash(response'.new_password)
                        ELSE users'[e] = users[e]
               /\ response'.code # 200 => users' = users ]_vars

\* after a reset with a token went through, a request with a token that was
\* handed out and is no user's token any more is refused
C29_Witness ==
    /\ response.op = "reset_password"
    /\ response.code = 400
    /\ Len(response.new_password) >= 8
    /\ \E n \in 1..issued : TokenUrlsafe[n] = response.token
    /\ \A e \in DOMAIN users : users[e].reset_token # response.token
    /\ \E e \in DOMAIN users : users[e].password_hash # PasswordHash(InitialPassword)

\* C30: the answer to a forgot-password request for a well-formed address is
\* the one an address without account gets, status 200 and the instructions
\* message, whether or not the address has an account and whatever becomes
\* of the mail.
C30_ForgotPasswordSameAnswer ==
    ( /\ response.op = "forgot_password"
      /\ IsEmail(response.email) )
    => ( /\ response.code = 200
         /\ response.message = ResetInstructions )

====
